---- MODULE Spec2Model ----
(***************************************************************************)
(* A model of mcp_server.py: the page fetch with retry (fetch_page), the   *)
(* pagination driver (fetch_all_cards), the process-wide cache             *)
(* (_seen_cards, _index_cards), the projection (parse_card) and the four   *)
(* tools built on them.                                                    *)
(*                                                                         *)
(* JSON values are encoded uniformly as records, so that any two of them   *)
(* can be compared: a string is [str |-> s], an integer [int |-> n], null  *)
(* [null |-> TRUE], a list [list |-> <<...>>], and an object is the record *)
(* of its own keys (no object of the model has a key named str, int, null  *)
(* or list).                                                               *)
(***************************************************************************)
EXTENDS Integers, Sequences, FiniteSets, TLC

\* ------------------------------------------------------------ constants
PAGE_SIZE == 100
MAX_RETRIES == 3
RETRY_BACKOFF == 2
\* the default of fetch_all_cards' max_pages, used by search_events
SEARCH_MAX_PAGES == 20
\* the max_pages get_event_details passes on a cache miss
DETAILS_MAX_PAGES == 50
\* get_event_stats keeps at most this many values per category
STATS_TOP == 20
DEFAULT_LOCALE == "de-de"

\* ------------------------------------------------------------ bounds
\* number of tool invocations in one behaviour
MaxCalls == 3
\* length of the facet lists received, before a run of padding facets
MaxFacets == 3
\* tool invocations of a behaviour in which two threads run
MaxSweeps == 2

\* ------------------------------------------------------------ JSON
JStr(s) == [str |-> s]
JInt(n) == [int |-> n]
JNull == [null |-> TRUE]
JList(q) == [list |-> q]
EmptyObj == [k \in {} |-> JNull]

Tags == {"str", "int", "null", "list"}
IsStr(v) == "str" \in DOMAIN v
IsInt(v) == "int" \in DOMAIN v
IsNull(v) == "null" \in DOMAIN v
IsList(v) == "list" \in DOMAIN v
\* a Python dict
IsObj(v) == DOMAIN v \cap Tags = {}

\* Python truthiness of a JSON value
Truthy(v) ==
    IF IsNull(v) THEN FALSE
    ELSE IF IsStr(v) THEN v.str # ""
    ELSE IF IsInt(v) THEN v.int # 0
    ELSE IF IsList(v) THEN v.list # <<>>
    ELSE DOMAIN v # {}

\* dict.get(k, default) on a dict d
Get(d, k, default) == IF k \in DOMAIN d THEN d[k] ELSE default

Min(a, b) == IF a <= b THEN a ELSE b

\* ------------------------------------------------------------ upstream
\* The remote API is the environment.  A catalogue is what the API holds for
\* one locale: `total` records, of which the ones the model looks at are
\* listed in `special` as <<position, record>> in increasing position; every
\* other position holds Filler, a record that carries no identifier.
Locales == {"de-de", "en-us"}
Filters == {"", "topic:ai"}
Queries == {"", "azure"}
\* the last one has a character outside ASCII and is held by no catalogue
EventIds == {"e1", "e2", "zürich"}

Card(id, name, tags) ==
    [content |-> [id |-> JStr(id), name |-> JStr(name),
                  filterIds |-> JList(tags)]]
Filler == [content |-> [name |-> JStr("filler")]]
EmptyIdCard == [content |-> [id |-> JStr(""), name |-> JStr("noid")]]
NullIdCard == [content |-> [id |-> JNull, name |-> JStr("nullid")]]
NoContentCard == [type |-> JStr("card")]
NullContentCard == [content |-> JNull]

\* A facet id is a string the code searches and splits, so it is written as
\* the sequence of its characters: <<"t", ":", "a">> is "t:a".
FacetList ==
    << [id |-> JStr(<<"t", ":", "a">>), count |-> JInt(2)],
       [id |-> JStr(<<"f", ":", "d">>), count |-> JInt(0)],
       [id |-> JStr(<<"n", "o">>), count |-> JInt(4)],
       [id |-> JStr(<<"t", ":", "c">>), count |-> JInt(5)],
       [id |-> JStr(<<"t", ":", "d", ":", "x">>), count |-> JInt(2)] >>

CatEmpty == [total |-> 0, special |-> <<>>, facets |-> <<>>]
\* one page; two records share the identifier e1
CatSmall ==
    [total |-> 6,
     special |-> << <<0, Card("e1", "first", <<JStr("topic:ai")>>)>>,
                    <<1, EmptyIdCard>>,
                    <<2, Card("e2", "azure", <<JStr("topic:ai")>>)>>,
                    <<3, NoContentCard>>,
                    <<4, Card("e1", "second", <<>>)>>,
                    <<5, NullIdCard>> >>,
     facets |-> FacetList]
\* two pages
CatTwoPages ==
    [total |-> 150,
     special |-> << <<0, Card("e1", "first", <<JStr("topic:ai")>>)>>,
                    <<120, Card("e2", "azure", <<>>)>> >>,
     facets |-> FacetList]
\* more records than either page cap covers
CatBig ==
    [total |-> 5001,
     special |-> << <<99, Card("e1", "first", <<JStr("topic:ai")>>)>>,
                    <<5000, Card("e2", "last", <<>>)>> >>,
     facets |-> FacetList]
\* a record whose content is null, between two well-formed ones
CatNull ==
    [total |-> 3,
     special |-> << <<0, Card("e1", "first", <<>>)>>,
                    <<1, NullContentCard>>,
                    <<2, Card("e2", "azure", <<>>)>> >>,
     facets |-> <<>>]
\* the other locale holds its own record e1
CatOther ==
    [total |-> 1,
     special |-> << <<0, Card("e1", "anders", <<JStr("topic:ai")>>)>> >>,
     facets |-> FacetList]

Upstreams ==
    { [l \in Locales |-> IF l = DEFAULT_LOCALE THEN c ELSE CatOther] :
        c \in {CatEmpty, CatSmall, CatTwoPages, CatBig, CatNull} }

\* the record a catalogue holds at a position
CardAt(cat, pos) ==
    IF \E i \in 1..Len(cat.special) : cat.special[i][1] = pos
    THEN LET i == CHOOSE j \in 1..Len(cat.special) : cat.special[j][1] = pos
         IN  cat.special[i][2]
    ELSE Filler

Matches(card, filters, query) ==
    LET content == Get(card, "content", EmptyObj) IN
    /\ IsObj(content)
    /\ filters = "" \/
         \E i \in 1..Len(Get(content, "filterIds", JList(<<>>)).list) :
            content.filterIds.list[i] = JStr(filters)
    /\ query = "" \/ Get(content, "name", JStr("")) = JStr(query)

\* the listing a request selects: its length and its record at each position
ListingTotal(cat, filters, query) ==
    IF filters = "" /\ query = "" THEN cat.total
    ELSE Len(SelectSeq(cat.special, LAMBDA e : Matches(e[2], filters, query)))

ListingAt(cat, filters, query, pos) ==
    IF filters = "" /\ query = "" THEN CardAt(cat, pos)
    ELSE SelectSeq(cat.special, LAMBDA e : Matches(e[2], filters, query))[pos + 1][2]

\* the body the API answers a request with
Respond(up, req) ==
    LET cat == up[req.locale]
        total == ListingTotal(cat, req.filters, req.query)
        n == IF req.skip < total THEN Min(req.top, total - req.skip) ELSE 0
    IN  [totalCount |-> JInt(total),
         cards |-> JList([i \in 1..n |->
                      ListingAt(cat, req.filters, req.query, req.skip + i - 1)]),
         facets |-> JList(IF req.top = 0 THEN cat.facets ELSE <<>>)]

\* ------------------------------------------------------------ cache
\* _seen_cards: a function from <<locale, identifier>> to the raw record
EmptyCache == [k \in {} |-> EmptyObj]

\* an assignment that keeps the entry a key already has
PutKeepFirst(seen, key, card) ==
    [x \in DOMAIN seen \cup {key} |-> IF x \in DOMAIN seen THEN seen[x] ELSE card]

\* an assignment that replaces the whole mapping
PutAlone(seen, key, card) == [x \in {key} |-> card]

\* _seen_cards[key] = card
Put(seen, key, card) ==
    [x \in DOMAIN seen \cup {key} |-> IF x = key THEN card ELSE seen[x]]

\* card.get("content", {}).get("id", ""), for a card whose content is a dict
CardId(card) == Get(Get(card, "content", EmptyObj), "id", JStr(""))

\* indexing without the test of the identifier
IndexCardAlways(seen, locale, card) == Put(seen, <<locale, CardId(card)>>, card)

\* indexing under the default locale, whatever locale was asked for
IndexCardDefaultLocale(seen, locale, card) ==
    LET eid == CardId(card)
    IN  IF Truthy(eid) THEN Put(seen, <<DEFAULT_LOCALE, eid>>, card) ELSE seen

\* one iteration of the loop of _index_cards
IndexCard(seen, locale, card) ==
    LET eid == CardId(card)
    IN  IF Truthy(eid) THEN Put(seen, <<locale, eid>>, card) ELSE seen

\* whether the loop body of _index_cards raises on this card: .get on a card
\* or a content that is no dict
IndexRaises(card) == ~IsObj(card) \/ ~IsObj(Get(card, "content", EmptyObj))

\* the loop of _index_cards over cards[lo..hi], in list order: the cache it
\* leaves, and the error that ended it, if any.  The range is split in two
\* halves run one after the other, which keeps the evaluation shallow.
RECURSIVE IndexRange(_, _, _, _, _)
IndexRange(seen, locale, cards, lo, hi) ==
    IF lo > hi THEN [seen |-> seen, error |-> "none"]
    ELSE IF lo = hi
    THEN IF IndexRaises(cards[lo]) THEN [seen |-> seen, error |-> "AttributeError"]
         ELSE [seen |-> IndexCard(seen, locale, cards[lo]), error |-> "none"]
    ELSE LET mid == (lo + hi) \div 2
             first == IndexRange(seen, locale, cards, lo, mid)
         IN  IF first.error # "none" THEN first
             ELSE IndexRange(first.seen, locale, cards, mid + 1, hi)

IndexCards(seen, locale, cards) == IndexRange(seen, locale, cards, 1, Len(cards))

\* a lookup by identifier alone
LookupAnyLocale(seen, locale, event_id) ==
    IF \E k \in DOMAIN seen : k[2] = JStr(event_id)
    THEN seen[CHOOSE k \in DOMAIN seen : k[2] = JStr(event_id)]
    ELSE JNull

\* _seen_cards.get((locale, event_id)): the record, or null
Lookup(seen, locale, event_id) ==
    Get(seen, <<locale, JStr(event_id)>>, JNull)

\* ------------------------------------------------------------ projection
\* x or {}
OrEmpty(v) == IF Truthy(v) THEN v ELSE EmptyObj

\* parse_card: the projected record, or the error a .get on a non-dict raises
ParseCard(card) ==
    LET content == Get(card, "content", EmptyObj) IN
    IF ~IsObj(content) THEN [error |-> "AttributeError", value |-> EmptyObj]
    ELSE
    LET location == OrEmpty(Get(content, "location", EmptyObj))
        dates == OrEmpty(Get(content, "eventDates", EmptyObj))
        action == OrEmpty(Get(content, "action", EmptyObj))
    IN  IF ~IsObj(location) \/ ~IsObj(dates) \/ ~IsObj(action)
        THEN [error |-> "AttributeError", value |-> EmptyObj]
        ELSE [error |-> "none",
              value |->
                [id |-> Get(content, "id", JStr("")),
                 name |-> Get(content, "name", JStr("")),
                 title |-> Get(content, "title", JStr("")),
                 description |-> Get(content, "description", JStr("")),
                 format |-> Get(content, "format", JStr("")),
                 format_english |-> Get(content, "formatEnglishName", JStr("")),
                 link |-> Get(action, "href", JStr("")),
                 city |-> Get(location, "city", JStr("")),
                 state |-> Get(location, "state", JStr("")),
                 country |-> Get(location, "country", JStr("")),
                 start_date |-> Get(dates, "startDate", JStr("")),
                 end_date |-> Get(dates, "endDate", JStr("")),
                 filter_ids |-> Get(content, "filterIds", JList(<<>>))]]

\* ------------------------------------------------------------ state
\* The handlers run in a thread of control; Main is the one the sequential
\* server uses.
Procs == {"a", "b"}
Main == "a"

TransportErrors == {"URLError", "TimeoutError"}

VARIABLES
    cache,      \* _seen_cards
    upstream,   \* what the remote API holds, per locale
    ncalls,     \* tool invocations so far
    pc,         \* per thread: "idle", "fetch_page" (in its loop), "fetched"
                \* (fetch_page returned to its caller), "returned", "raised"
    call,       \* per thread: the tool invoked and its arguments
    sweep,      \* per thread: the frame of fetch_all_cards
    fp,         \* per thread: the frame of fetch_page
    reqs,       \* per thread: the payload of every fetch_page call of the invocation
    nsweeps,    \* per thread: fetch_all_cards calls of the invocation
    result,     \* per thread: what the invocation returned or raised
    searched,   \* history: <<locale, id>> of every event that a search_events
                \* invocation returned so far
    before,     \* history, per thread: _seen_cards as the invocation found it
    indexing,   \* per thread: the frame of _index_cards, when its loop is run
                \* one iteration at a time
    writes      \* history: the assignments to _seen_cards made one at a time,
                \* in the order they happened

vars == <<cache, upstream, ncalls, pc, call, sweep, fp, reqs, nsweeps, result, searched,
          before, indexing, writes>>

NoCall == [tool |-> "none", event_id |-> "", locale |-> "", filters |-> "", query |-> ""]
NoSweep ==
    [active |-> FALSE, locale |-> "", filters |-> "", query |-> "", max_pages |-> 0,
     meta |-> EmptyObj, total |-> 0, skip |-> 0, all_cards |-> <<>>]
NoFetch ==
    [purpose |-> "none",
     req |-> [locale |-> "", top |-> 0, skip |-> 0, filters |-> "",
              scenario |-> "Events", query |-> ""],
     attempt |-> 0, last_error |-> "none", log |-> <<>>, response |-> EmptyObj]
NoIndex == [cards |-> <<>>, i |-> 0]
NoResult == [status |-> "none", error |-> "none", ensure_ascii |-> FALSE, doc |-> EmptyObj]

Init ==
    /\ cache = EmptyCache
    /\ upstream \in Upstreams
    /\ ncalls = 0
    /\ pc = [p \in Procs |-> "idle"]
    /\ call = [p \in Procs |-> NoCall]
    /\ sweep = [p \in Procs |-> NoSweep]
    /\ fp = [p \in Procs |-> NoFetch]
    /\ reqs = [p \in Procs |-> <<>>]
    /\ nsweeps = [p \in Procs |-> 0]
    /\ result = [p \in Procs |-> NoResult]
    /\ searched = {}
    /\ before = [p \in Procs |-> EmptyCache]
    /\ indexing = [p \in Procs |-> NoIndex]
    /\ writes = <<>>

\* json.dumps of a document, returned to the caller
Return(ensure_ascii, doc) ==
    [status |-> "returned", error |-> "none", ensure_ascii |-> ensure_ascii, doc |-> doc]
\* json.dumps(..., ensure_ascii=True) writes a character outside ASCII as its
\* \uXXXX escape; the characters outside ASCII the model uses
NonAscii == {"ü"}
EscapeOf(ch) == IF ch = "ü" THEN "\\u00fc" ELSE ch

\* a string as json.dumps writes it with ensure_ascii=True
RECURSIVE EscapeText(_)
EscapeText(s) ==
    IF s = "" THEN ""
    ELSE (IF SubSeq(s, 1, 1) \in NonAscii THEN EscapeOf(SubSeq(s, 1, 1))
          ELSE SubSeq(s, 1, 1)) \o EscapeText(SubSeq(s, 2, Len(s)))

\* a document with every string of it written that way
RECURSIVE EscapeJson(_)
EscapeJson(v) ==
    IF IsStr(v) THEN JStr(EscapeText(v.str))
    ELSE IF IsInt(v) \/ IsNull(v) THEN v
    ELSE IF IsList(v) THEN JList([i \in 1..Len(v.list) |-> EscapeJson(v.list[i])])
    ELSE [k \in DOMAIN v |-> EscapeJson(v[k])]

\* the strings of the text json.dumps(doc, ensure_ascii=...) produces
Dumps(ensure_ascii, doc) == IF ensure_ascii THEN EscapeJson(doc) ELSE doc

\* an exception leaving the tool
Raise(error) ==
    [status |-> "raised", error |-> error, ensure_ascii |-> FALSE, doc |-> EmptyObj]

\* the entry of fetch_page: the payload is built, no attempt made yet
NewFetch(purpose, locale, filters, top, skip, query) ==
    [purpose |-> purpose,
     req |-> [locale |-> locale, top |-> top, skip |-> skip, filters |-> filters,
              scenario |-> "Events", query |-> query],
     attempt |-> 0, last_error |-> "none", log |-> <<>>, response |-> EmptyObj]

\* ------------------------------------------------------------ fetch_page
UrlopenEvent(outcome) == [ev |-> "urlopen", outcome |-> outcome, secs |-> 0]
SleepEvent(secs) == [ev |-> "sleep", outcome |-> "", secs |-> secs]

RECURSIVE Pow2(_)
Pow2(n) == IF n = 0 THEN 1 ELSE 2 * Pow2(n - 1)

\* a backoff that does not double
BackoffConstant(attempt) == RETRY_BACKOFF

\* time.sleep(RETRY_BACKOFF * (2 ** attempt))
Backoff(attempt) == RETRY_BACKOFF * Pow2(attempt)

\* whether the except clause sleeps after the failure of this attempt
SleepsAfter(attempt) == attempt < MAX_RETRIES - 1

\* raising the error of the first attempt instead of the last
RaisedFirstError(f) == f.log[1].outcome

\* the error fetch_page raises once the loop is over
RaisedError(f) == f.last_error

\* the frame after an attempt that failed with transport error e
FailedAttempt(f, e) ==
    [f EXCEPT !.attempt = f.attempt + 1,
              !.last_error = e,
              !.log = f.log \o <<UrlopenEvent(e)>> \o
                      (IF SleepsAfter(f.attempt) THEN <<SleepEvent(Backoff(f.attempt))>>
                       ELSE <<>>)]

\* the frame after an attempt that succeeded: the parsed body is returned
OkAttempt(f, body) ==
    [f EXCEPT !.log = f.log \o <<UrlopenEvent("ok")>>, !.response = body]

\* an attempt succeeds: fetch_page returns json.loads of the body
UrlopenOk(p) ==
    /\ pc[p] = "fetch_page"
    /\ fp[p].attempt < MAX_RETRIES
    /\ fp' = [fp EXCEPT ![p] = OkAttempt(@, Respond(upstream, @.req))]
    /\ pc' = [pc EXCEPT ![p] = "fetched"]
    /\ UNCHANGED <<cache, upstream, ncalls, call, sweep, reqs, nsweeps, result, searched,
                 before, indexing, writes>>

\* a failure of the last attempt that also puts _seen_cards back to what the
\* invocation found
UrlopenFailsRollsBack(p, e) ==
    /\ pc[p] = "fetch_page"
    /\ fp[p].attempt < MAX_RETRIES
    /\ LET f == FailedAttempt(fp[p], e) IN
       /\ fp' = [fp EXCEPT ![p] = f]
       /\ IF f.attempt < MAX_RETRIES
          THEN UNCHANGED <<pc, result, cache>>
          ELSE /\ pc' = [pc EXCEPT ![p] = "raised"]
               /\ result' = [result EXCEPT ![p] = Raise(RaisedError(f))]
               /\ cache' = before[p]
    /\ UNCHANGED <<upstream, ncalls, call, sweep, reqs, nsweeps, searched,
                   before, indexing, writes>>

\* an attempt fails with a transport error: retry, or raise the last error
UrlopenFails(p, e) ==
    /\ pc[p] = "fetch_page"
    /\ fp[p].attempt < MAX_RETRIES
    /\ LET f == FailedAttempt(fp[p], e) IN
       /\ fp' = [fp EXCEPT ![p] = f]
       /\ IF f.attempt < MAX_RETRIES
          THEN UNCHANGED <<pc, result>>
          ELSE /\ pc' = [pc EXCEPT ![p] = "raised"]
               /\ result' = [result EXCEPT ![p] = Raise(RaisedError(f))]
    /\ UNCHANGED <<cache, upstream, ncalls, call, sweep, reqs, nsweeps, searched,
                 before, indexing, writes>>

\* the body of a received response does not decode: json.loads raises
\* ValueError, which the except clause does not catch
BodyFails(p) ==
    /\ pc[p] = "fetch_page"
    /\ fp[p].attempt < MAX_RETRIES
    /\ fp' = [fp EXCEPT ![p] = [@ EXCEPT !.log = @ \o <<UrlopenEvent("ValueError")>>]]
    /\ pc' = [pc EXCEPT ![p] = "raised"]
    /\ result' = [result EXCEPT ![p] = Raise("ValueError")]
    /\ UNCHANGED <<cache, upstream, ncalls, call, sweep, reqs, nsweeps, searched,
                 before, indexing, writes>>

\* ------------------------------------------------------------ facets
\* the index of the first ":" of a string, 0 when it has none
Colon(chars) ==
    IF \E i \in 1..Len(chars) : chars[i] = ":"
    THEN CHOOSE i \in 1..Len(chars) :
            chars[i] = ":" /\ \A j \in 1..(i - 1) : chars[j] # ":"
    ELSE 0

\* an assignment categories[cat] = [entry], which forgets the earlier entries
Append2Replace(cats, cat, entry) ==
    [c \in DOMAIN cats \cup {cat} |-> IF c = cat THEN <<entry>> ELSE cats[c]]

\* categories.setdefault(cat, []).append(entry)
Append2(cats, cat, entry) ==
    [c \in DOMAIN cats \cup {cat} |->
        IF c = cat THEN Get(cats, cat, <<>>) \o <<entry>> ELSE cats[c]]

\* the grouping loop of list_filters (positive, field "value") and of
\* get_event_stats (field "name"), from the i-th facet on
RECURSIVE GroupFrom(_, _, _, _, _)
GroupFrom(cats, facets, i, positive, field) ==
    IF i > Len(facets) THEN [error |-> "none", categories |-> cats]
    ELSE IF ~IsObj(facets[i]) THEN [error |-> "AttributeError", categories |-> cats]
    ELSE
    LET fid == Get(facets[i], "id", JStr(<<>>))
        count == Get(facets[i], "count", JInt(0))
    IN  IF ~IsStr(fid) THEN [error |-> "TypeError", categories |-> cats]
        ELSE IF Colon(fid.str) = 0 THEN GroupFrom(cats, facets, i + 1, positive, field)
        ELSE IF positive /\ ~IsInt(count) THEN [error |-> "TypeError", categories |-> cats]
        ELSE IF positive /\ ~(count.int > 0)
             THEN GroupFrom(cats, facets, i + 1, positive, field)
        ELSE LET k == Colon(fid.str)
                 cat == SubSeq(fid.str, 1, k - 1)
                 val == SubSeq(fid.str, k + 1, Len(fid.str))
                 entry == [x \in {field, "count"} |->
                              IF x = field THEN JStr(val) ELSE count]
             IN  GroupFrom(Append2(cats, cat, entry), facets, i + 1, positive, field)

\* no sort at all
NotSorted(entries) == entries

\* list.sort(key=lambda x: -x["count"]): stable, by count descending
RECURSIVE SortByCount(_)
SortByCount(entries) ==
    IF entries = <<>> THEN <<>>
    ELSE LET n == Len(entries)
             x == entries[n]
             sorted == SortByCount(SubSeq(entries, 1, n - 1))
             k == Cardinality({i \in 1..Len(sorted) : sorted[i].count.int >= x.count.int})
         IN  SubSeq(sorted, 1, k) \o <<x>> \o SubSeq(sorted, k + 1, Len(sorted))

\* entries[:n]
Take(entries, n) == SubSeq(entries, 1, Min(n, Len(entries)))

\* what list_filters makes of the probe response
ListFiltersResult(meta) ==
    LET facets == Get(meta, "facets", JList(<<>>)) IN
    IF ~IsList(facets) THEN Raise("TypeError")
    ELSE LET g == GroupFrom(EmptyObj, facets.list, 1, TRUE, "value") IN
         IF g.error # "none" THEN Raise(g.error)
         ELSE Return(FALSE,
                [total_events |-> Get(meta, "totalCount", JInt(0)),
                 categories |-> [c \in DOMAIN g.categories |->
                                    SortByCount(g.categories[c])]])

\* what get_event_stats makes of the probe response
StatsResult(meta) ==
    LET facets == Get(meta, "facets", JList(<<>>)) IN
    IF ~IsList(facets) THEN Raise("TypeError")
    ELSE LET g == GroupFrom(EmptyObj, facets.list, 1, FALSE, "name") IN
         IF g.error # "none" THEN Raise(g.error)
         ELSE IF \E c \in DOMAIN g.categories :
                    \E i \in 1..Len(g.categories[c]) : ~IsInt(g.categories[c][i].count)
              THEN Raise("TypeError")
         ELSE Return(FALSE,
                [total_events |-> Get(meta, "totalCount", JInt(0)),
                 categories |-> [c \in DOMAIN g.categories |->
                                    Take(SortByCount(g.categories[c]), STATS_TOP)]])

\* ------------------------------------------------------------ tool results
\* a search that reports the declared total as the number returned
SearchResultCountsTotal(cards, meta) ==
    LET parsed == [i \in 1..Len(cards) |-> ParseCard(cards[i])] IN
    IF \E i \in 1..Len(cards) : parsed[i].error # "none"
    THEN Raise("AttributeError")
    ELSE Return(FALSE,
           [total_count |-> Get(meta, "totalCount", JInt(0)),
            returned |-> Get(meta, "totalCount", JInt(0)),
            events |-> JList([i \in 1..Len(cards) |-> parsed[i].value])])

\* search_events, after fetch_all_cards returned (cards, meta)
SearchResult(cards, meta) ==
    LET parsed == [i \in 1..Len(cards) |-> ParseCard(cards[i])] IN
    IF \E i \in 1..Len(cards) : parsed[i].error # "none"
    THEN Raise("AttributeError")
    ELSE Return(FALSE,
           [total_count |-> Get(meta, "totalCount", JInt(0)),
            returned |-> JInt(Len(cards)),
            events |-> JList([i \in 1..Len(cards) |-> parsed[i].value])])

\* a lookup that fails with an exception instead of a result
DetailsResultRaises(card, event_id) ==
    IF ~Truthy(card) THEN Raise("KeyError")
    ELSE Return(FALSE,
           [k \in DOMAIN ParseCard(card).value \cup {"raw_content"} |->
               IF k = "raw_content" THEN Get(card, "content", EmptyObj)
               ELSE ParseCard(card).value[k]])

\* get_event_details from the lookup on: card is what _seen_cards.get gave
DetailsResult(card, event_id) ==
    IF ~Truthy(card)
    THEN Return(TRUE, [error |-> JStr("Event '" \o event_id \o "' not found")])
    ELSE LET parsed == ParseCard(card) IN
         IF parsed.error # "none" THEN Raise(parsed.error)
         ELSE Return(FALSE,
                [k \in DOMAIN parsed.value \cup {"raw_content"} |->
                    IF k = "raw_content" THEN Get(card, "content", EmptyObj)
                    ELSE parsed.value[k]])

\* the tool's code after its fetch_all_cards call returned
AfterSweep(c, seen, cards, meta) ==
    IF c.tool = "search_events" THEN SearchResult(cards, meta)
    ELSE DetailsResult(Lookup(seen, c.locale, c.event_id), c.event_id)

\* ------------------------------------------------------------ fetch_all_cards
\* a sweep that ignores the page cap
SweepStopUncapped(total, max_pages) == total

\* a cap counted in records instead of pages
SweepStopInRecords(total, max_pages) == Min(total, max_pages)

\* the stop of range(0, min(total, max_pages * PAGE_SIZE), PAGE_SIZE)
SweepStop(total, max_pages) == Min(total, max_pages * PAGE_SIZE)

\* entering fetch_all_cards: its frame, and its first statement, the probe
EnterSweep(p, locale, filters, query, max_pages) ==
    LET f == NewFetch("probe", locale, filters, 0, 0, query) IN
    /\ sweep' = [sweep EXCEPT ![p] =
                    [locale |-> locale, filters |-> filters, query |-> query,
                     max_pages |-> max_pages, meta |-> EmptyObj, total |-> 0,
                     skip |-> 0, all_cards |-> <<>>]]
    /\ fp' = [fp EXCEPT ![p] = f]
    /\ reqs' = [reqs EXCEPT ![p] = <<f.req>>]
    /\ nsweeps' = [nsweeps EXCEPT ![p] = 1]
    /\ pc' = [pc EXCEPT ![p] = "fetch_page"]
    /\ result' = [result EXCEPT ![p] = NoResult]
    /\ UNCHANGED searched

\* the events a returned search_events document lists, as cache keys
ReturnedKeys(c, r) ==
    IF c.tool = "search_events" /\ r.status = "returned"
    THEN { <<c.locale, r.doc.events.list[i].id>> : i \in
             { j \in 1..Len(r.doc.events.list) : Truthy(r.doc.events.list[j].id) } }
    ELSE {}

\* the invocation ends: it returns a document or raises
Finish(p, c, r) ==
    /\ pc' = [pc EXCEPT ![p] = r.status]
    /\ result' = [result EXCEPT ![p] = r]
    /\ searched' = searched \cup ReturnedKeys(c, r)

\* fetch_page returned the probe: total is read; then no page at all, or
\* the first page is requested
ProbeReturns(p) ==
    /\ pc[p] = "fetched"
    /\ fp[p].purpose = "probe"
    /\ LET sw == sweep[p]
           meta == fp[p].response
           total == Get(meta, "totalCount", JInt(0))
       IN  IF ~IsInt(total)
           THEN /\ sweep' = [sweep EXCEPT ![p] = [@ EXCEPT !.meta = meta]]
                /\ Finish(p, call[p], Raise("TypeError"))
                /\ UNCHANGED <<fp, reqs>>
           ELSE IF total.int = 0 \/ SweepStop(total.int, sw.max_pages) <= 0
           THEN /\ sweep' = [sweep EXCEPT ![p] =
                                [@ EXCEPT !.meta = meta, !.total = total.int]]
                /\ Finish(p, call[p], AfterSweep(call[p], cache, <<>>, meta))
                /\ UNCHANGED <<fp, reqs>>
           ELSE LET f == NewFetch("page", sw.locale, sw.filters, PAGE_SIZE, 0, sw.query) IN
                /\ sweep' = [sweep EXCEPT ![p] =
                                [@ EXCEPT !.meta = meta, !.total = total.int, !.skip = 0]]
                /\ fp' = [fp EXCEPT ![p] = f]
                /\ reqs' = [reqs EXCEPT ![p] = Append(@, f.req)]
                /\ pc' = [pc EXCEPT ![p] = "fetch_page"]
                /\ UNCHANGED <<result, searched>>
    /\ UNCHANGED <<cache, upstream, ncalls, call, nsweeps, before, indexing, writes>>

\* fetch_page returned a data page: its records are accumulated and indexed;
\* then the next page is requested, or the sweep returns
PageReturns(p) ==
    /\ pc[p] = "fetched"
    /\ fp[p].purpose = "page"
    /\ LET sw == sweep[p]
           data == fp[p].response
           cards == Get(data, "cards", JList(<<>>))
       IN  IF ~IsList(cards)
           THEN /\ Finish(p, call[p], Raise("TypeError"))
                /\ UNCHANGED <<cache, sweep, fp, reqs>>
           ELSE
           LET all == sw.all_cards \o cards.list
               ix == IndexCards(cache, sw.locale, cards.list)
               next == sw.skip + PAGE_SIZE
           IN  /\ cache' = ix.seen
               /\ IF ix.error # "none"
                  THEN /\ sweep' = [sweep EXCEPT ![p] = [@ EXCEPT !.all_cards = all]]
                       /\ Finish(p, call[p], Raise(ix.error))
                       /\ UNCHANGED <<fp, reqs>>
                  ELSE IF next < SweepStop(sw.total, sw.max_pages)
                  THEN LET f == NewFetch("page", sw.locale, sw.filters, PAGE_SIZE,
                                         next, sw.query) IN
                       /\ sweep' = [sweep EXCEPT ![p] =
                                       [@ EXCEPT !.all_cards = all, !.skip = next]]
                       /\ fp' = [fp EXCEPT ![p] = f]
                       /\ reqs' = [reqs EXCEPT ![p] = Append(@, f.req)]
                       /\ pc' = [pc EXCEPT ![p] = "fetch_page"]
                       /\ UNCHANGED <<result, searched>>
                  ELSE /\ sweep' = [sweep EXCEPT ![p] = [@ EXCEPT !.all_cards = all]]
                       /\ Finish(p, call[p], AfterSweep(call[p], ix.seen, all, sw.meta))
                       /\ UNCHANGED <<fp, reqs>>
    /\ UNCHANGED <<upstream, ncalls, call, nsweeps, before, indexing, writes>>

\* fetch_page returned the single probe of list_filters or get_event_stats
FacetsReturn(p) ==
    /\ pc[p] = "fetched"
    /\ fp[p].purpose = "facets"
    /\ Finish(p, call[p], IF call[p].tool = "list_filters" THEN ListFiltersResult(fp[p].response)
                 ELSE StatsResult(fp[p].response))
    /\ UNCHANGED <<cache, upstream, ncalls, call, sweep, fp, reqs, nsweeps,
                 before, indexing, writes>>

\* ------------------------------------------------------------ tools
\* a tool may be invoked when the thread runs no invocation
CanCall(p) ==
    /\ pc[p] \in {"idle", "returned", "raised"}
    /\ ncalls < MaxCalls

search_events(p, filters, query, locale) ==
    /\ CanCall(p)
    /\ ncalls' = ncalls + 1
    /\ call' = [call EXCEPT ![p] =
                  [tool |-> "search_events", event_id |-> "", locale |-> locale,
                   filters |-> filters, query |-> query]]
    /\ EnterSweep(p, locale, filters, query, SEARCH_MAX_PAGES)
    /\ before' = [before EXCEPT ![p] = cache]
    /\ UNCHANGED <<cache, upstream, indexing, writes>>

get_event_details(p, event_id, locale) ==
    /\ CanCall(p)
    /\ ncalls' = ncalls + 1
    /\ call' = [call EXCEPT ![p] =
                  [tool |-> "get_event_details", event_id |-> event_id,
                   locale |-> locale, filters |-> "", query |-> ""]]
    /\ LET card == Lookup(cache, locale, event_id) IN
       IF ~Truthy(card)
       THEN EnterSweep(p, locale, "", "", DETAILS_MAX_PAGES)
       ELSE /\ Finish(p, call'[p], DetailsResult(card, event_id))
            /\ sweep' = [sweep EXCEPT ![p] = NoSweep]
            /\ fp' = [fp EXCEPT ![p] = NoFetch]
            /\ reqs' = [reqs EXCEPT ![p] = <<>>]
            /\ nsweeps' = [nsweeps EXCEPT ![p] = 0]
    /\ before' = [before EXCEPT ![p] = cache]
    /\ UNCHANGED <<cache, upstream, indexing, writes>>

\* an entry that asks for the facets of the unfiltered listing, whatever
\* filter the caller gave
EnterFacetsUnfiltered(p, locale, filters) ==
    LET f == NewFetch("facets", locale, "", 0, 0, "") IN
    /\ sweep' = [sweep EXCEPT ![p] = NoSweep]
    /\ fp' = [fp EXCEPT ![p] = f]
    /\ reqs' = [reqs EXCEPT ![p] = <<f.req>>]
    /\ nsweeps' = [nsweeps EXCEPT ![p] = 0]
    /\ pc' = [pc EXCEPT ![p] = "fetch_page"]
    /\ result' = [result EXCEPT ![p] = NoResult]
    /\ UNCHANGED searched

\* the entry of list_filters and get_event_stats: one fetch_page(top=0, skip=0)
EnterFacets(p, locale, filters) ==
    LET f == NewFetch("facets", locale, filters, 0, 0, "") IN
    /\ sweep' = [sweep EXCEPT ![p] = NoSweep]
    /\ fp' = [fp EXCEPT ![p] = f]
    /\ reqs' = [reqs EXCEPT ![p] = <<f.req>>]
    /\ nsweeps' = [nsweeps EXCEPT ![p] = 0]
    /\ pc' = [pc EXCEPT ![p] = "fetch_page"]
    /\ result' = [result EXCEPT ![p] = NoResult]
    /\ UNCHANGED searched

list_filters(p, locale) ==
    /\ CanCall(p)
    /\ ncalls' = ncalls + 1
    /\ call' = [call EXCEPT ![p] =
                  [tool |-> "list_filters", event_id |-> "", locale |-> locale,
                   filters |-> "", query |-> ""]]
    /\ EnterFacets(p, locale, "")
    /\ before' = [before EXCEPT ![p] = cache]
    /\ UNCHANGED <<cache, upstream, indexing, writes>>

get_event_stats(p, filters, locale) ==
    /\ CanCall(p)
    /\ ncalls' = ncalls + 1
    /\ call' = [call EXCEPT ![p] =
                  [tool |-> "get_event_stats", event_id |-> "", locale |-> locale,
                   filters |-> filters, query |-> ""]]
    /\ EnterFacets(p, locale, filters)
    /\ before' = [before EXCEPT ![p] = cache]
    /\ UNCHANGED <<cache, upstream, indexing, writes>>

\* ------------------------------------------------------------ specification
Next ==
    \/ \E f \in Filters, q \in Queries, l \in Locales : search_events(Main, f, q, l)
    \/ \E e \in EventIds, l \in Locales : get_event_details(Main, e, l)
    \/ \E l \in Locales : list_filters(Main, l)
    \/ \E f \in Filters, l \in Locales : get_event_stats(Main, f, l)
    \/ \E e \in TransportErrors : UrlopenFails(Main, e)
    \/ BodyFails(Main)
    \/ UrlopenOk(Main)
    \/ ProbeReturns(Main)
    \/ PageReturns(Main)
    \/ FacetsReturn(Main)

Spec == Init /\ [][Next]_vars

\* ------------------------------------------------------------ properties
Urlopens(log) == SelectSeq(log, LAMBDA e : e.ev = "urlopen")
Sleeps(log) == SelectSeq(log, LAMBDA e : e.ev = "sleep")
TransportFailure(e) == e.ev = "urlopen" /\ e.outcome \in TransportErrors
AllTransportFailures(log) ==
    \A i \in 1..Len(log) : log[i].ev = "urlopen" => TransportFailure(log[i])

\* C1: one fetch_page call makes at most MAX_RETRIES attempts; when every
\* attempt failed with a transport error it has made exactly MAX_RETRIES
\* attempts and MAX_RETRIES - 1 sleeps, and it raises the error of the last
\* attempt.
C1_RetryExhaustion ==
    \A p \in Procs :
        LET log == fp[p].log
            tries == Urlopens(log)
        IN  /\ Len(tries) <= MAX_RETRIES
            /\ (Len(tries) = MAX_RETRIES /\ AllTransportFailures(log)) =>
                  /\ pc[p] = "raised"
                  /\ result[p].status = "raised"
                  /\ result[p].error = tries[Len(tries)].outcome
                  /\ Len(Sleeps(log)) = MAX_RETRIES - 1
            /\ (pc[p] = "raised" /\ result[p].error \in TransportErrors) =>
                  /\ Len(tries) = MAX_RETRIES
                  /\ AllTransportFailures(log)

C1_Witness ==
    /\ pc[Main] = "raised"
    /\ result[Main].error = "TimeoutError"
    /\ Len(Urlopens(fp[Main].log)) = MAX_RETRIES
    /\ Urlopens(fp[Main].log)[1].outcome = "URLError"
    /\ Len(Sleeps(fp[Main].log)) = MAX_RETRIES - 1

\* C2: in the log of a fetch_page call every sleep directly follows a failed
\* attempt and is directly followed by the next attempt, the k-th sleep lasts
\* RETRY_BACKOFF * 2^(k-1), and a call that returned after f failures made
\* f + 1 attempts and f sleeps, f < MAX_RETRIES, and returned the body the
\* API answered its request with.
C2_BackoffSchedule ==
    \A p \in Procs :
        LET log == fp[p].log
            naps == Sleeps(log)
            tries == Urlopens(log)
        IN  /\ \A k \in 1..Len(naps) : naps[k].secs = RETRY_BACKOFF * Pow2(k - 1)
            /\ \A i \in 1..Len(log) : log[i].ev = "sleep" =>
                  /\ i > 1
                  /\ TransportFailure(log[i - 1])
                  /\ i < Len(log) => log[i + 1].ev = "urlopen"
                  /\ i = Len(log) => (pc[p] = "fetch_page" /\ fp[p].attempt < MAX_RETRIES)
            /\ pc[p] = "fetched" =>
                  /\ log[Len(log)] = UrlopenEvent("ok")
                  /\ Len(tries) - 1 < MAX_RETRIES
                  /\ Len(naps) = Len(tries) - 1
                  /\ \A i \in 1..(Len(tries) - 1) : TransportFailure(tries[i])
                  /\ fp[p].response = Respond(upstream, fp[p].req)

C2_Witness ==
    /\ pc[Main] = "fetched"
    /\ Len(Urlopens(fp[Main].log)) = MAX_RETRIES
    /\ Len(Sleeps(fp[Main].log)) = 2
    /\ Sleeps(fp[Main].log)[1].secs = RETRY_BACKOFF
    /\ Sleeps(fp[Main].log)[2].secs = 2 * RETRY_BACKOFF

\* the payload fetch_all_cards hands to fetch_page for a frame sw
SweepRequest(sw, top, skip) ==
    [locale |-> sw.locale, top |-> top, skip |-> skip, filters |-> sw.filters,
     scenario |-> "Events", query |-> sw.query]

CeilDiv(a, b) == (a + b - 1) \div b

\* ceil(min(T, C * PAGE_SIZE) / PAGE_SIZE)
ExpectedPages(total, max_pages) ==
    CeilDiv(Min(total, max_pages * PAGE_SIZE), PAGE_SIZE)

\* C3: a sweep requests the zero-size probe first and then data pages of size
\* PAGE_SIZE at offsets 0, PAGE_SIZE, 2 * PAGE_SIZE, ... in this order; it
\* never requests more than ceil(min(T, C * PAGE_SIZE) / PAGE_SIZE) of them
\* nor more than C, a sweep that ran to its end has requested exactly that
\* many, and for T = 0 none, returning no record.
C3_RequestSchedule ==
    \A p \in Procs : nsweeps[p] = 1 =>
        LET sw == sweep[p]
            n == Len(reqs[p]) - 1
            want == ExpectedPages(sw.total, sw.max_pages)
        IN  /\ Len(reqs[p]) >= 1
            /\ reqs[p][1] = SweepRequest(sw, 0, 0)
            /\ \A k \in 1..n :
                  reqs[p][k + 1] = SweepRequest(sw, PAGE_SIZE, (k - 1) * PAGE_SIZE)
            /\ n >= 1 => /\ sw.meta = Respond(upstream, reqs[p][1])
                         /\ sw.meta.totalCount = JInt(sw.total)
            /\ n <= want
            /\ n <= sw.max_pages
            /\ pc[p] = "returned" => n = want
            /\ (pc[p] = "returned" /\ sw.total = 0) => (n = 0 /\ sw.all_cards = <<>>)

\* a search whose probe declared more than the cap covers has ended
C3_Witness ==
    /\ pc[Main] = "returned"
    /\ call[Main].tool = "search_events"
    /\ sweep[Main].total > SEARCH_MAX_PAGES * PAGE_SIZE
    /\ Len(reqs[Main]) = 1 + SEARCH_MAX_PAGES

\* the cache key of the event a get_event_details invocation asks for
DetailsKey(c) == <<c.locale, JStr(c.event_id)>>

\* the document get_event_details returns for a cached record
DetailsDoc(card) ==
    [k \in DOMAIN ParseCard(card).value \cup {"raw_content"} |->
        IF k = "raw_content" THEN card.content ELSE ParseCard(card).value[k]]

NotFoundDoc(event_id) == [error |-> JStr("Event '" \o event_id \o "' not found")]

\* a get_event_details invocation returned "not found"
NotFound(p) ==
    /\ call[p].tool = "get_event_details"
    /\ pc[p] = "returned"
    /\ result[p].doc = NotFoundDoc(call[p].event_id)

\* the invocation's fetch_all_cards call returned: its last fetch_page call
\* returned and no record of that page made _index_cards raise
SweepReturned(p) ==
    /\ nsweeps[p] = 1
    /\ pc[p] \in {"returned", "raised"}
    /\ fp[p].log # <<>>
    /\ fp[p].log[Len(fp[p].log)] = UrlopenEvent("ok")
    /\ fp[p].purpose = "page" =>
          \A i \in 1..Len(fp[p].response.cards.list) :
              ~IndexRaises(fp[p].response.cards.list[i])

\* get_event_details in each state of its invocation
C4_DetailsStates ==
    \A p \in Procs : call[p].tool = "get_event_details" =>
        LET c == call[p]
            key == DetailsKey(c)
        IN  /\ nsweeps[p] \in {0, 1}
            /\ nsweeps[p] = 0 =>
                  /\ pc[p] = "returned"
                  /\ reqs[p] = <<>>
                  /\ fp[p].log = <<>>
                  /\ key \in DOMAIN cache
                  /\ result[p] = Return(FALSE, DetailsDoc(cache[key]))
            /\ nsweeps[p] = 1 =>
                  /\ sweep[p].locale = c.locale
                  /\ sweep[p].filters = ""
                  /\ sweep[p].query = ""
                  /\ sweep[p].max_pages = DETAILS_MAX_PAGES
                  /\ Cardinality({i \in 1..Len(reqs[p]) : reqs[p][i].top = 0}) = 1
                  /\ SweepReturned(p) =>
                        result[p] = IF key \in DOMAIN cache
                                    THEN Return(FALSE, DetailsDoc(cache[key]))
                                    ELSE Return(TRUE, NotFoundDoc(c.event_id))

\* get_event_details at its invocation: it sweeps iff the key is not cached
C4_DetailsCall ==
    \A p \in Procs :
        (/\ ncalls' = ncalls + 1
         /\ pc[p] \in {"idle", "returned", "raised"}
         /\ call'[p].tool = "get_event_details") =>
        IF DetailsKey(call'[p]) \in DOMAIN cache
        THEN nsweeps'[p] = 0 /\ pc'[p] = "returned" /\ reqs'[p] = <<>>
        ELSE nsweeps'[p] = 1 /\ pc'[p] = "fetch_page" /\ Len(reqs'[p]) = 1

\* C4: get_event_details(id, locale) answers from the cache, with the
\* projected record plus raw content and without any fetch, when (locale, id)
\* is cached; otherwise it runs exactly one sweep (empty filter, empty query,
\* page cap 50), looks the key up once more and returns the document
\* {error: "Event '<id>' not found"} if the key is still absent.
C4_DetailsLookup == []C4_DetailsStates /\ [][C4_DetailsCall]_vars

C4_Witness ==
    /\ NotFound(Main)
    /\ nsweeps[Main] = 1
    /\ Len(reqs[Main]) > 1
    /\ result[Main].status = "returned"

\* a catalogue holds a record with this identifier at a position below `below`
Holds(cat, event_id, below) ==
    \E i \in 1..Len(cat.special) :
        /\ cat.special[i][1] < below
        /\ cat.special[i][1] < cat.total
        /\ CardId(cat.special[i][2]) = JStr(event_id)

\* every data page offset below `below` was requested
Requested(p, below) ==
    \A k \in 0..(below \div PAGE_SIZE) : k * PAGE_SIZE < below =>
        \E i \in 1..Len(reqs[p]) :
            reqs[p][i].top = PAGE_SIZE /\ reqs[p][i].skip = k * PAGE_SIZE

C6_SearchedIsCached ==
    \A p \in Procs :
        /\ searched \subseteq DOMAIN cache
        /\ (call[p].tool = "search_events" /\ pc[p] = "returned") =>
              \A i \in 1..Len(result[p].doc.events.list) :
                 LET id == result[p].doc.events.list[i].id
                 IN  Truthy(id) => /\ <<call[p].locale, id>> \in DOMAIN cache
                                   /\ <<call[p].locale, id>> \in searched
        /\ (call[p].tool = "get_event_details" /\ DetailsKey(call[p]) \in searched) =>
              /\ pc[p] = "returned"
              /\ nsweeps[p] = 0
              /\ reqs[p] = <<>>
              /\ fp[p].log = <<>>
              /\ result[p].status = "returned"
              /\ result[p].doc.id = JStr(call[p].event_id)

\* a details call answered from the cache for an event a search returned,
\* with another invocation besides the two
C6_Witness ==
    /\ call[Main].tool = "get_event_details"
    /\ DetailsKey(call[Main]) \in searched
    /\ pc[Main] = "returned"
    /\ reqs[Main] = <<>>
    /\ ncalls >= 3

\* a data page has been fetched and is about to be accumulated and indexed
PageFetched(p) == pc[p] = "fetched" /\ fp[p].purpose = "page"

\* the records of the fetched page that _index_cards gets to: all of them, or
\* those before the first one it raises on
Indexed(cards) ==
    IF \E i \in 1..Len(cards) : IndexRaises(cards[i])
    THEN SubSeq(cards, 1, (CHOOSE i \in 1..Len(cards) :
                              /\ IndexRaises(cards[i])
                              /\ \A j \in 1..(i - 1) : ~IndexRaises(cards[j])) - 1)
    ELSE cards

\* the non-empty identifiers of a list of records
IdsOf(cards) == {id \in {CardId(cards[i]) : i \in 1..Len(cards)} : Truthy(id)}

\* the last record of a list that carries an identifier
LastWith(cards, id) ==
    cards[CHOOSE i \in 1..Len(cards) :
            /\ CardId(cards[i]) = id
            /\ \A j \in (i + 1)..Len(cards) : CardId(cards[j]) # id]

\* _index_cards applied to a fetched page, once and twice
C7_IndexOnPage ==
    \A p \in Procs : PageFetched(p) =>
        LET cards == Indexed(fp[p].response.cards.list)
            l == sweep[p].locale
            once == IndexCards(cache, l, cards)
            twice == IndexCards(once.seen, l, cards)
        IN  /\ twice = once
            /\ DOMAIN once.seen = DOMAIN cache \cup {<<l, id>> : id \in IdsOf(cards)}
            /\ \A id \in IdsOf(cards) : once.seen[<<l, id>>] = LastWith(cards, id)
            /\ \A k \in DOMAIN cache :
                  k \notin {<<l, id>> : id \in IdsOf(cards)} => once.seen[k] = cache[k]

\* the step that indexes a fetched page leaves, under every key of the page,
\* the page's last record with that identifier, whatever the entry held
C7_IndexStep ==
    \A p \in Procs : (PageFetched(p) /\ pc'[p] # "fetched") =>
        LET cards == Indexed(fp[p].response.cards.list)
        IN  \A id \in IdsOf(cards) :
               /\ <<sweep[p].locale, id>> \in DOMAIN cache'
               /\ cache'[<<sweep[p].locale, id>>] = LastWith(cards, id)

\* C7: indexing is idempotent and last-write-wins: indexing the same records
\* twice gives the cache that indexing them once gives, with one entry per
\* (locale, id); an entry holds the record of the most recent indexing, and
\* within one call the last record of the list with that id.
C7_LastWriteWins == []C7_IndexOnPage /\ [][C7_IndexStep]_vars

\* the one-page catalogue lists e1 twice; the later record is the cached one
C7_Witness ==
    /\ pc[Main] = "returned"
    /\ upstream[DEFAULT_LOCALE] = CatSmall
    /\ <<DEFAULT_LOCALE, JStr("e1")>> \in DOMAIN cache
    /\ cache[<<DEFAULT_LOCALE, JStr("e1")>>] = Card("e1", "second", <<>>)

\* C8: every cache key (locale, id) has a non-empty id and maps to a record
\* whose content identifier is id; indexing a record whose identifier is
\* empty, null or absent, or that has no content, leaves the cache unchanged.
C8_CacheWellFormed ==
    /\ \A k \in DOMAIN cache :
          /\ k[1] \in Locales
          /\ Truthy(k[2])
          /\ IsObj(cache[k])
          /\ "content" \in DOMAIN cache[k]
          /\ CardId(cache[k]) = k[2]
    /\ \A p \in Procs : PageFetched(p) =>
          \A card \in {fp[p].response.cards.list[i] :
                          i \in 1..Len(fp[p].response.cards.list)} :
             (~IndexRaises(card) /\ ~Truthy(CardId(card))) =>
                 IndexCards(cache, sweep[p].locale, <<card>>) =
                     [seen |-> cache, error |-> "none"]

\* a page with records without identifier and without content is about to be
\* indexed into a cache that holds entries
C8_Witness ==
    /\ PageFetched(Main)
    /\ cache # EmptyCache
    /\ \E i, j, k \in 1..Len(fp[Main].response.cards.list) :
          /\ fp[Main].response.cards.list[i] = EmptyIdCard
          /\ fp[Main].response.cards.list[j] = NoContentCard
          /\ fp[Main].response.cards.list[k] = NullIdCard

\* C9: the cache starts empty and no step removes a key from it.
C9_CacheGrows == cache = EmptyCache /\ [][DOMAIN cache \subseteq DOMAIN cache']_vars

\* entries outlive a failed invocation
C9_Witness ==
    /\ pc[Main] = "raised"
    /\ ncalls >= 3
    /\ Cardinality(DOMAIN cache) >= 2

\* a step changes only entries of the locale of the page being indexed
C10_LocaleFrame ==
    \A k \in DOMAIN cache \cup DOMAIN cache' :
        (k \notin DOMAIN cache \/ k \notin DOMAIN cache' \/ cache'[k] # cache[k]) =>
            \E p \in Procs : PageFetched(p) /\ sweep[p].locale = k[1]

\* an invocation of get_event_details whose own key is not cached sweeps its
\* own locale, whatever other locales hold
C10_LocaleMiss ==
    \A p \in Procs :
        (/\ ncalls' = ncalls + 1
         /\ pc[p] \in {"idle", "returned", "raised"}
         /\ call'[p].tool = "get_event_details"
         /\ DetailsKey(call'[p]) \notin DOMAIN cache) =>
        /\ nsweeps'[p] = 1
        /\ sweep'[p].locale = call'[p].locale
        /\ reqs'[p] = <<SweepRequest(sweep'[p], 0, 0)>>

\* a record get_event_details returns is the entry of its own locale
C10_LocaleAnswer ==
    \A p \in Procs :
        (call[p].tool = "get_event_details" /\ pc[p] = "returned" /\ ~NotFound(p)) =>
            /\ DetailsKey(call[p]) \in DOMAIN cache
            /\ result[p].doc = DetailsDoc(cache[DetailsKey(call[p])])

\* C10: the cache is partitioned by locale: indexing under a locale leaves the
\* entries of every other locale as they are, and get_event_details(id, L)
\* answers only from the entry under (L, id); without it, it sweeps locale L
\* even when another locale holds that id.
C10_LocalePartition ==
    /\ []C10_LocaleAnswer
    /\ [][C10_LocaleFrame /\ C10_LocaleMiss]_vars

\* get_event_details for a locale has just missed an id cached under another
C10_Witness ==
    /\ call[Main].tool = "get_event_details"
    /\ pc[Main] = "fetch_page"
    /\ Len(reqs[Main]) = 1
    /\ fp[Main].log = <<>>
    /\ DetailsKey(call[Main]) \notin DOMAIN cache
    /\ \E l \in Locales : l # call[Main].locale /\
          <<l, JStr(call[Main].event_id)>> \in DOMAIN cache

\* ------------------------------------------------------------ parse_card alone
\* parse_card called on a record directly.  The records are built from a
\* choice per key of content: the key is absent, null, or holds a value.
Absent == [absent |-> TRUE]

\* the object of the <<key, choice>> pairs whose choice is not Absent
ObjOf(pairs) ==
    [k \in {pairs[i][1] : i \in {j \in 1..Len(pairs) : pairs[j][2] # Absent}} |->
        pairs[CHOOSE i \in 1..Len(pairs) : pairs[i][1] = k][2]]

LeafChoices(s) == {Absent, JNull, JStr(s)}
LocationChoices ==
    {Absent, JNull, EmptyObj,
     [city |-> JStr("Bonn"), country |-> JStr("Germany")],
     [city |-> JNull, state |-> JStr("NRW")]}
DatesChoices ==
    {Absent, JNull, [startDate |-> JStr("2025-06-01"), endDate |-> JStr("2025-06-02")],
     [startDate |-> JNull]}
ActionChoices == {Absent, JNull, [href |-> JStr("https://example.com/event")], [href |-> JNull]}
TagsChoices == {Absent, JNull, JList(<<JStr("topic:ai")>>)}

ContentChoices ==
    {Absent, JNull} \cup
    { ObjOf(<< <<"id", a>>, <<"name", b>>, <<"filterIds", c>>, <<"location", d>>,
               <<"eventDates", e>>, <<"action", f>> >>) :
        a \in LeafChoices("e1"), b \in LeafChoices("Test Event"), c \in TagsChoices,
        d \in LocationChoices, e \in DatesChoices, f \in ActionChoices }

ParseInputs == { ObjOf(<< <<"content", c>> >>) : c \in ContentChoices }

\* a value handed back to a Python caller
Returned(v) == [status |-> "returned", error |-> "none", ensure_ascii |-> FALSE, doc |-> v]

InitProjection ==
    /\ cache = EmptyCache
    /\ upstream \in {[l \in Locales |-> CatEmpty]}
    /\ ncalls = 1
    /\ \E card \in ParseInputs :
          call = [p \in Procs |->
                    IF p = Main
                    THEN [tool |-> "parse_card", event_id |-> "", locale |-> "",
                          filters |-> "", query |-> "", card |-> card]
                    ELSE NoCall]
    /\ pc = [p \in Procs |-> IF p = Main THEN "called" ELSE "idle"]
    /\ sweep = [p \in Procs |-> NoSweep]
    /\ fp = [p \in Procs |-> NoFetch]
    /\ reqs = [p \in Procs |-> <<>>]
    /\ nsweeps = [p \in Procs |-> 0]
    /\ result = [p \in Procs |-> NoResult]
    /\ searched = {}
    /\ before = [p \in Procs |-> EmptyCache]
    /\ indexing = [p \in Procs |-> NoIndex]
    /\ writes = <<>>

\* parse_card runs on its argument and hands back the projection, or raises
parse_card(p) ==
    /\ pc[p] = "called"
    /\ call[p].tool = "parse_card"
    /\ LET parsed == ParseCard(call[p].card)
           r == IF parsed.error # "none" THEN Raise(parsed.error)
                ELSE Returned(parsed.value)
       IN  /\ pc' = [pc EXCEPT ![p] = r.status]
           /\ result' = [result EXCEPT ![p] = r]
    /\ UNCHANGED <<cache, upstream, ncalls, call, sweep, fp, reqs, nsweeps, searched,
                   before, indexing, writes>>

NextProjection == parse_card(Main)

SpecProjection == InitProjection /\ [][NextProjection]_vars

\* a key that an object holds with a value other than null
Present(obj, k) == IsObj(obj) /\ k \in DOMAIN obj /\ ~IsNull(obj[k])
\* the nested object under a key, empty when the key is missing or null
NestedOr(obj, k) == IF Present(obj, k) THEN obj[k] ELSE EmptyObj
\* the leaf under a key, the default when the key is missing or null
LeafOr(obj, k, default) == IF Present(obj, k) THEN obj[k] ELSE default

\* the projection with the defaults the claim states
ProjectionDefaults(card) ==
    LET content == NestedOr(card, "content")
        location == NestedOr(content, "location")
        dates == NestedOr(content, "eventDates")
        action == NestedOr(content, "action")
    IN  [id |-> LeafOr(content, "id", JStr("")),
         name |-> LeafOr(content, "name", JStr("")),
         title |-> LeafOr(content, "title", JStr("")),
         description |-> LeafOr(content, "description", JStr("")),
         format |-> LeafOr(content, "format", JStr("")),
         format_english |-> LeafOr(content, "formatEnglishName", JStr("")),
         link |-> LeafOr(action, "href", JStr("")),
         city |-> LeafOr(location, "city", JStr("")),
         state |-> LeafOr(location, "state", JStr("")),
         country |-> LeafOr(location, "country", JStr("")),
         start_date |-> LeafOr(dates, "startDate", JStr("")),
         end_date |-> LeafOr(dates, "endDate", JStr("")),
         filter_ids |-> LeafOr(content, "filterIds", JList(<<>>))]

\* C11: parse_card applied to a record returns, for every projected field, the
\* leaf the record holds, or the empty string (the empty list for the filter
\* tags) when the content wrapper, the nested object or the leaf itself is
\* missing or null; it does not raise.
C11_ProjectionDefaults ==
    \A p \in Procs : (call[p].tool = "parse_card" /\ pc[p] # "called") =>
        result[p] = Returned(ProjectionDefaults(call[p].card))

\* ------------------------------------------------------------ received responses
\* The tools on whatever a successful exchange can deliver: a thread is where
\* its fetch_page call has just returned the parsed body, and the body is
\* drawn from the shapes below, well-formed and not.
SeqsUpTo(S, n) == UNION {[1..k -> S] : k \in 0..n}

Facet(chars, count) == [id |-> JStr(chars), count |-> JInt(count)]

\* "t:a" and "t:b" tie, "no" has no colon, "f:d:x" has two, "t:c" counts 0
FacetChoices ==
    { Facet(<<"t", ":", "a">>, 2), Facet(<<"t", ":", "b">>, 2),
      Facet(<<"t", ":", "c">>, 0), Facet(<<"n", "o">>, 4),
      Facet(<<"f", ":", "d", ":", "x">>, 1), Facet(<<"t", ":", "e">>, 5),
      [id |-> JStr(<<"f", ":", "g">>)] }

Digit == <<"0", "1", "2", "3", "4", "5", "6", "7", "8", "9">>

\* the i-th of a run of facets of category "t" whose counts repeat 1, 2, 0
PadFacet(i) ==
    Facet(<<"t", ":", "p", Digit[(i \div 10) + 1], Digit[(i % 10) + 1]>>, i % 3)
Pad(n) == [i \in 1..n |-> PadFacet(i)]
\* runs that leave a category below, at and above the STATS_TOP entries kept
PadSizes == {0, STATS_TOP - 1, STATS_TOP + 1}

FacetInputs == { s \o Pad(n) : s \in SeqsUpTo(FacetChoices, MaxFacets), n \in PadSizes }

\* facets that are no {id: string, count: integer}
MalformedFacets ==
    { JNull,
      [id |-> JNull, count |-> JInt(1)],
      [id |-> JStr(<<"t", ":", "a">>), count |-> JNull],
      [id |-> JStr(<<"t", ":", "a">>), count |-> JStr("3")],
      [count |-> JInt(2)] }

FacetsResponses ==
    { [totalCount |-> JInt(7), cards |-> JList(<<>>), facets |-> JList(fs)] :
        fs \in FacetInputs \cup { <<Facet(<<"t", ":", "a">>, 2), f>> : f \in MalformedFacets } }
    \cup { EmptyObj, [totalCount |-> JNull, facets |-> JNull] }

ProbeResponses ==
    { ObjOf(<< <<"totalCount", n>>, <<"cards", JList(<<>>)>>, <<"facets", JList(<<>>)>> >>) :
        n \in {Absent, JNull, JInt(0), JInt(3), JStr("3")} }

\* records of a data page, among them a null, a null content, a content that
\* is a list, a null location and a location that is a string
PageCardChoices ==
    { Card("e1", "first", <<>>), Filler, NullIdCard, NoContentCard, NullContentCard,
      JNull, [content |-> JList(<<>>)],
      [content |-> [id |-> JStr("e2"), location |-> JNull]],
      [content |-> [id |-> JStr("e2"), location |-> JStr("Bonn")]] }

PageResponses ==
    { ObjOf(<< <<"totalCount", JInt(2)>>, <<"cards", c>> >>) :
        c \in {Absent, JNull} \cup { JList(s) : s \in SeqsUpTo(PageCardChoices, 2) } }

\* the probe that came before a received data page
ProbeBefore == [totalCount |-> JInt(2), cards |-> JList(<<>>), facets |-> JList(<<>>)]

\* a tool, the fetch_page call it is in, and what that call returned
ReceivedCases ==
    { [tool |-> tl, purpose |-> "facets", filters |-> f, response |-> r] :
        tl \in {"list_filters"}, f \in {""}, r \in FacetsResponses }
    \cup { [tool |-> tl, purpose |-> "facets", filters |-> f, response |-> r] :
        tl \in {"get_event_stats"}, f \in Filters, r \in FacetsResponses }
    \cup { [tool |-> tl, purpose |-> "probe", filters |-> "", response |-> r] :
        tl \in {"search_events", "get_event_details"}, r \in ProbeResponses }
    \cup { [tool |-> tl, purpose |-> "page", filters |-> "", response |-> r] :
        tl \in {"search_events", "get_event_details"}, r \in PageResponses }

\* the frame of fetch_all_cards when the call of a case returns
ReceivedSweep(rc) ==
    IF rc.purpose = "facets" THEN NoSweep
    ELSE [locale |-> DEFAULT_LOCALE, filters |-> rc.filters, query |-> "",
          max_pages |-> IF rc.tool = "search_events" THEN SEARCH_MAX_PAGES
                        ELSE DETAILS_MAX_PAGES,
          meta |-> IF rc.purpose = "page" THEN ProbeBefore ELSE EmptyObj,
          total |-> IF rc.purpose = "page" THEN ProbeBefore.totalCount.int ELSE 0,
          skip |-> 0, all_cards |-> <<>>]

\* the fetch_page call of a case, returned
ReceivedFetch(rc) ==
    OkAttempt(NewFetch(rc.purpose, DEFAULT_LOCALE, rc.filters,
                       IF rc.purpose = "page" THEN PAGE_SIZE ELSE 0, 0, ""),
              rc.response)

InitReceived ==
    /\ cache = EmptyCache
    /\ upstream \in {[l \in Locales |-> CatEmpty]}
    /\ ncalls = 1
    /\ \E rc \in ReceivedCases :
          /\ call = [p \in Procs |->
                       IF p = Main
                       THEN [tool |-> rc.tool,
                             event_id |-> IF rc.tool = "get_event_details" THEN "e1" ELSE "",
                             locale |-> DEFAULT_LOCALE, filters |-> rc.filters, query |-> ""]
                       ELSE NoCall]
          /\ sweep = [p \in Procs |-> IF p = Main THEN ReceivedSweep(rc) ELSE NoSweep]
          /\ fp = [p \in Procs |-> IF p = Main THEN ReceivedFetch(rc) ELSE NoFetch]
          /\ reqs = [p \in Procs |->
                       IF p # Main THEN <<>>
                       ELSE IF rc.purpose = "page"
                       THEN <<NewFetch("probe", DEFAULT_LOCALE, rc.filters, 0, 0, "").req,
                              ReceivedFetch(rc).req>>
                       ELSE <<ReceivedFetch(rc).req>>]
          /\ nsweeps = [p \in Procs |-> IF p = Main /\ rc.purpose # "facets" THEN 1 ELSE 0]
    /\ pc = [p \in Procs |-> IF p = Main THEN "fetched" ELSE "idle"]
    /\ result = [p \in Procs |-> NoResult]
    /\ searched = {}
    /\ before = [p \in Procs |-> EmptyCache]
    /\ indexing = [p \in Procs |-> NoIndex]
    /\ writes = <<>>

NextReceived ==
    \/ ProbeReturns(Main)
    \/ PageReturns(Main)
    \/ FacetsReturn(Main)

SpecReceived == InitReceived /\ [][NextReceived]_vars

\* a fetch_page call that ran out of attempts
Exhausted(f) ==
    /\ Len(Urlopens(f.log)) = MAX_RETRIES
    /\ AllTransportFailures(f.log)

\* C12: an invocation ends by returning a document or by raising the
\* transport error of a fetch_page call that ran out of attempts; it never
\* raises after its fetch_page call returned a response, whatever the shape of
\* that response.
C12_OnlyTransportFatal ==
    \A p \in Procs : pc[p] = "raised" =>
        /\ result[p].error \in TransportErrors
        /\ Exhausted(fp[p])

\* a list_filters or get_event_stats invocation returned its document
FacetsReturned(p) ==
    /\ call[p].tool \in {"list_filters", "get_event_stats"}
    /\ pc[p] = "returned"

\* the facets of the response the invocation received
FacetsIn(p) == LeafOr(fp[p].response, "facets", JList(<<>>)).list

\* id and count of a facet, as read with their defaults
FacetId(f) == LeafOr(f, "id", JStr(<<>>)).str
FacetCount(f) == LeafOr(f, "count", JInt(0)).int

HasColon(chars) == \E i \in 1..Len(chars) : chars[i] = ":"
\* the text before the first colon, and the text after it
CategoryOf(chars) ==
    LET k == CHOOSE i \in 1..Len(chars) :
                chars[i] = ":" /\ \A j \in 1..(i - 1) : chars[j] # ":"
    IN  SubSeq(chars, 1, k - 1)
ValueOf(chars) ==
    LET k == CHOOSE i \in 1..Len(chars) :
                chars[i] = ":" /\ \A j \in 1..(i - 1) : chars[j] # ":"
    IN  SubSeq(chars, k + 1, Len(chars))

\* whether a tool keeps a facet
Kept(tool, f) ==
    /\ HasColon(FacetId(f))
    /\ tool = "list_filters" => FacetCount(f) > 0

\* the entry a tool lists for a facet it keeps
EntryOf(tool, f) ==
    IF tool = "list_filters"
    THEN [value |-> JStr(ValueOf(FacetId(f))), count |-> JInt(FacetCount(f))]
    ELSE [name |-> JStr(ValueOf(FacetId(f))), count |-> JInt(FacetCount(f))]

\* the entries of one category, in the order of the facets received
EntriesOf(tool, facets, cat) ==
    LET kept == SelectSeq(facets,
                    LAMBDA f : Kept(tool, f) /\ CategoryOf(FacetId(f)) = cat)
    IN  [i \in 1..Len(kept) |-> EntryOf(tool, kept[i])]

\* the number of entries a tool lists per category at most: STATS_TOP for
\* get_event_stats, all of them for list_filters
KeptAtMost(tool, n) == IF tool = "get_event_stats" THEN Min(n, STATS_TOP) ELSE n

Occurrences(seq, e) == Cardinality({i \in 1..Len(seq) : seq[i] = e})

\* C13: in the document of list_filters and of get_event_stats the categories
\* are exactly those of the facets kept, a facet with id "c:v" (split at the
\* first colon) being kept unless list_filters finds its count 0 or less, and a
\* facet without colon never; no category has an empty list; each listed
\* entry is the value and count of a kept facet of that category, listed no
\* more often than received, and all of them are listed up to the STATS_TOP
\* entries get_event_stats keeps.
C13_FacetGrouping ==
    \A p \in Procs : FacetsReturned(p) =>
        LET tool == call[p].tool
            facets == FacetsIn(p)
            cats == result[p].doc.categories
        IN  /\ DOMAIN cats =
                  { CategoryOf(FacetId(facets[i])) :
                      i \in {j \in 1..Len(facets) : Kept(tool, facets[j])} }
            /\ \A c \in DOMAIN cats :
                  LET all == EntriesOf(tool, facets, c)
                  IN  /\ cats[c] # <<>>
                      /\ Len(cats[c]) = KeptAtMost(tool, Len(all))
                      /\ \A i \in 1..Len(cats[c]) :
                            /\ Occurrences(all, cats[c][i]) >= 1
                            /\ Occurrences(cats[c], cats[c][i]) <=
                                  Occurrences(all, cats[c][i])

\* list_filters received a facet without colon, one with count 0 and one with
\* two colons, and listed the last under "f" with value "d:x"
C13_Witness ==
    /\ FacetsReturned(Main)
    /\ call[Main].tool = "list_filters"
    /\ \E i, j, k \in 1..Len(FacetsIn(Main)) :
          /\ FacetsIn(Main)[i] = Facet(<<"n", "o">>, 4)
          /\ FacetsIn(Main)[j] = Facet(<<"t", ":", "c">>, 0)
          /\ FacetsIn(Main)[k] = Facet(<<"f", ":", "d", ":", "x">>, 1)
    /\ DOMAIN result[Main].doc.categories = {<<"f">>}
    /\ result[Main].doc.categories[<<"f">>] =
          <<[value |-> JStr(<<"d", ":", "x">>), count |-> JInt(1)]>>

\* the place of the i-th entry in the order by count descending that keeps
\* entries of equal count in their order
RankOf(entries, i) ==
    1 + Cardinality({j \in 1..Len(entries) : entries[j].count.int > entries[i].count.int})
      + Cardinality({j \in 1..(i - 1) : entries[j].count.int = entries[i].count.int})

InOrder(entries) ==
    [r \in 1..Len(entries) |->
        entries[CHOOSE i \in 1..Len(entries) : RankOf(entries, i) = r]]

\* C14: each category of the document of list_filters and of get_event_stats
\* lists its entries by count descending, entries of equal count in the order
\* received; get_event_stats lists the first STATS_TOP of that order and no
\* more, so that no entry left out counts more than a listed one.
C14_SortedTruncated ==
    \A p \in Procs : FacetsReturned(p) =>
        LET tool == call[p].tool
            cats == result[p].doc.categories
        IN  \A c \in DOMAIN cats :
               LET all == InOrder(EntriesOf(tool, FacetsIn(p), c))
                   out == cats[c]
               IN  /\ out = SubSeq(all, 1, KeptAtMost(tool, Len(all)))
                   /\ \A i \in 1..(Len(out) - 1) : out[i].count.int >= out[i + 1].count.int
                   /\ tool = "get_event_stats" =>
                         /\ Len(out) <= STATS_TOP
                         /\ \A i \in (Len(out) + 1)..Len(all) :
                               all[i].count.int <= out[Len(out)].count.int

\* get_event_stats received more than STATS_TOP facets of a category, with
\* ties, the highest count not first, and listed STATS_TOP of them
C14_Witness ==
    /\ FacetsReturned(Main)
    /\ call[Main].tool = "get_event_stats"
    /\ Len(EntriesOf("get_event_stats", FacetsIn(Main), <<"t">>)) > STATS_TOP
    /\ Len(result[Main].doc.categories[<<"t">>]) = STATS_TOP
    /\ FacetsIn(Main)[1] = Facet(<<"t", ":", "a">>, 2)
    /\ FacetsIn(Main)[2] = Facet(<<"t", ":", "e">>, 5)
    /\ FacetsIn(Main)[3] = Facet(<<"t", ":", "b">>, 2)
    /\ result[Main].doc.categories[<<"t">>][1].name = JStr(<<"e">>)
    /\ result[Main].doc.categories[<<"t">>][2].name = JStr(<<"a">>)
    /\ result[Main].doc.categories[<<"t">>][3].name = JStr(<<"b">>)

\* the records of the data pages that the requests from the k-th on select
RECURSIVE PagesFrom(_, _)
PagesFrom(requests, k) ==
    IF k > Len(requests) THEN <<>>
    ELSE Respond(upstream, requests[k]).cards.list \o PagesFrom(requests, k + 1)

\* a search_events invocation returned its document
SearchReturned(p) == call[p].tool = "search_events" /\ pc[p] = "returned"

\* what a finished search reports
C15_SearchReport ==
    \A p \in Procs : SearchReturned(p) =>
        LET sw == sweep[p]
            doc == result[p].doc
            probe == Respond(upstream, reqs[p][1])
        IN  /\ sw.max_pages = SEARCH_MAX_PAGES
            /\ sw.meta = probe
            /\ sw.all_cards = PagesFrom(reqs[p], 2)
            /\ DOMAIN doc = {"total_count", "returned", "events"}
            /\ doc.total_count = probe.totalCount
            /\ doc.returned = JInt(Len(sw.all_cards))
            /\ Len(doc.events.list) = Len(sw.all_cards)
            /\ \A i \in 1..Len(sw.all_cards) :
                  doc.events.list[i] = ParseCard(sw.all_cards[i]).value
            /\ doc.returned.int = Min(probe.totalCount.int, SEARCH_MAX_PAGES * PAGE_SIZE)

\* the step that takes a fetched data page appends its records to the ones
\* accumulated, and keeps the probe as the metadata
C15_Accumulate ==
    \A p \in Procs : (PageFetched(p) /\ pc'[p] # "fetched") =>
        /\ sweep'[p].all_cards = sweep[p].all_cards \o fp[p].response.cards.list
        /\ sweep'[p].meta = sweep[p].meta
        /\ sweep[p].meta # fp[p].response

\* C15: fetch_all_cards accumulates the records of its data pages in the
\* order fetched and keeps the probe response as metadata; a search_events
\* that returns reports the probe's totalCount as total_count, the number of
\* accumulated records as returned and the projection of each accumulated
\* record, in order, as events; returned is min(totalCount, 20 * PAGE_SIZE).
C15_SearchAccumulates == []C15_SearchReport /\ [][C15_Accumulate]_vars

\* a search cut by the page cap: fewer events returned than the total
C15_Witness ==
    /\ SearchReturned(Main)
    /\ result[Main].doc.total_count = JInt(5001)
    /\ result[Main].doc.returned = JInt(SEARCH_MAX_PAGES * PAGE_SIZE)
    /\ result[Main].doc.events.list[100].id = JStr("e1")

\* C16: the text of every document a tool returns carries the strings of the
\* document as they are, characters outside ASCII included, on every return
\* path: writing it with json.dumps changes no string.
C16_NonAsciiLiteral ==
    \A p \in Procs : pc[p] = "returned" =>
        Dumps(result[p].ensure_ascii, result[p].doc) = result[p].doc

\* a sweep ended by a fetch_page call that ran out of attempts
SweepAborted(p) ==
    /\ nsweeps[p] = 1
    /\ pc[p] = "raised"
    /\ result[p].error \in TransportErrors

\* some record of the list carries the identifier
Carries(records, id) == \E i \in 1..Len(records) : CardId(records[i]) = id

\* seen holds the entries of `prior` and, for each non-empty identifier the
\* records carry, the last record that carries it, under the locale, and
\* nothing else
WithRecords(seen, prior, locale, records) ==
    /\ DOMAIN prior \subseteq DOMAIN seen
    /\ \A i \in 1..Len(records) :
          Truthy(CardId(records[i])) => <<locale, CardId(records[i])>> \in DOMAIN seen
    /\ \A k \in DOMAIN seen :
          IF k[1] = locale /\ Carries(records, k[2])
          THEN seen[k] = LastWith(records, k[2])
          ELSE k \in DOMAIN prior /\ seen[k] = prior[k]

\* a sweep whose page fetch ran out of attempts, and what it leaves
C17_AfterAbort ==
    \A p \in Procs :
        /\ (nsweeps[p] = 1 /\ Exhausted(fp[p])) =>
              /\ pc[p] = "raised"
              /\ result[p] = Raise(Urlopens(fp[p].log)[MAX_RETRIES].outcome)
        /\ SweepAborted(p) =>
              LET n == Len(reqs[p])
                  got == sweep[p].all_cards
              IN  /\ Exhausted(fp[p])
                  /\ fp[p].req = reqs[p][n]
                  /\ Len(got) = (n - 2) * PAGE_SIZE \/ (n = 1 /\ got = <<>>)
                  /\ WithRecords(cache, before[p], sweep[p].locale, got)
                  /\ fp[p].purpose = "probe" => (n = 1 /\ cache = before[p])

\* the records accumulated are those of the data pages fetched, in order; the
\* step that aborts changes neither the cache nor the requests made, and an
\* aborted invocation makes no request and no write afterwards
C17_AbortStep ==
    \A p \in Procs :
        /\ (nsweeps'[p] = 1 /\ sweep'[p].all_cards # sweep[p].all_cards) =>
              \/ pc'[p] = "fetch_page" /\ Len(reqs'[p]) = 1 /\ sweep'[p].all_cards = <<>>
              \/ /\ PageFetched(p)
                 /\ fp[p].response = Respond(upstream, reqs[p][Len(reqs[p])])
                 /\ sweep'[p].all_cards = sweep[p].all_cards \o fp[p].response.cards.list
        /\ (pc[p] = "fetch_page" /\ pc'[p] = "raised") =>
              /\ cache' = cache
              /\ reqs'[p] = reqs[p]
              /\ sweep'[p] = sweep[p]
        /\ (SweepAborted(p) /\ call'[p] = call[p] /\ ncalls' = ncalls) =>
              /\ cache' = cache
              /\ reqs'[p] = reqs[p]
              /\ pc'[p] = "raised"

\* C17: when a page fetch of a sweep, the probe or a data page, runs out of
\* attempts, the tool invocation raises that error and requests nothing
\* more; the cache then holds the entries the invocation found plus the
\* records of the data pages fetched before the failure, indexed in order,
\* and after a failed probe exactly the entries the invocation found.
C17_AbortKeepsCache == []C17_AfterAbort /\ [][C17_AbortStep]_vars

\* the second data page failed after the first was indexed into a cache that
\* already held an entry of the other locale
C17_Witness ==
    /\ SweepAborted(Main)
    /\ Len(reqs[Main]) = 3
    /\ before[Main] # EmptyCache
    /\ DOMAIN cache # DOMAIN before[Main]
    /\ <<DEFAULT_LOCALE, JStr("e1")>> \in DOMAIN cache
    /\ <<DEFAULT_LOCALE, JStr("e2")>> \notin DOMAIN cache

\* an invocation of list_filters or get_event_stats, under way or over
FacetsCall(p) == call[p].tool \in {"list_filters", "get_event_stats"}

\* the one request such an invocation makes
FacetsRequest(c) ==
    [locale |-> c.locale, top |-> 0, skip |-> 0,
     filters |-> IF c.tool = "get_event_stats" THEN c.filters ELSE "",
     scenario |-> "Events", query |-> ""]

C18_OneProbe ==
    \A p \in Procs : FacetsCall(p) =>
        /\ nsweeps[p] = 0
        /\ reqs[p] = <<FacetsRequest(call[p])>>
        /\ fp[p].req = FacetsRequest(call[p])
        /\ cache = before[p]

\* a step that changes the cache is the step of a sweep that takes a fetched
\* data page, and it is no step of list_filters or get_event_stats
C18_WriteStep ==
    cache' # cache =>
        \E p \in Procs :
            /\ PageFetched(p)
            /\ nsweeps[p] = 1
            /\ fp[p].req.top = PAGE_SIZE
            /\ call[p].tool \in {"search_events", "get_event_details"}

\* C18: list_filters and get_event_stats make one request per invocation,
\* with top = 0, skip = 0 and an empty query, list_filters with an empty
\* filter and get_event_stats with the filter it was given, and no other;
\* they leave the cache as they found it, and only the step of a sweep that
\* takes a data page writes to the cache.
C18_FacetToolsFrame == []C18_OneProbe /\ [][C18_WriteStep]_vars

\* get_event_stats with a filter returned, the cache holding entries
C18_Witness ==
    /\ call[Main].tool = "get_event_stats"
    /\ call[Main].filters = "topic:ai"
    /\ pc[Main] = "returned"
    /\ result[Main].doc.categories # EmptyObj
    /\ cache # EmptyCache
    /\ cache = before[Main]

\* ------------------------------------------------------------ two threads
\* The same handlers run by two threads of control over the one _seen_cards.
\* A thread is switched between bytecodes, so the loop of _index_cards is
\* taken one iteration at a time; the subscript assignment of an iteration
\* is one bytecode on a dict and is not divided.
InterleavedUpstreams ==
    { [l \in Locales |-> IF l = DEFAULT_LOCALE THEN c ELSE CatOther] :
        c \in {CatSmall, CatNull} }

InitInterleaved ==
    /\ cache = EmptyCache
    /\ upstream \in InterleavedUpstreams
    /\ ncalls = 0
    /\ pc = [p \in Procs |-> "idle"]
    /\ call = [p \in Procs |-> NoCall]
    /\ sweep = [p \in Procs |-> NoSweep]
    /\ fp = [p \in Procs |-> NoFetch]
    /\ reqs = [p \in Procs |-> <<>>]
    /\ nsweeps = [p \in Procs |-> 0]
    /\ result = [p \in Procs |-> NoResult]
    /\ searched = {}
    /\ before = [p \in Procs |-> EmptyCache]
    /\ indexing = [p \in Procs |-> NoIndex]
    /\ writes = <<>>

\* one assignment _seen_cards[key] = card, by thread p
Write(p, key, card) == [by |-> p, key |-> key, card |-> card]

\* fetch_page returned a data page: all_cards.extend(cards), and _index_cards
\* is entered
PageReceived(p) ==
    /\ pc[p] = "fetched"
    /\ fp[p].purpose = "page"
    /\ LET cards == Get(fp[p].response, "cards", JList(<<>>)) IN
       IF ~IsList(cards)
       THEN /\ Finish(p, call[p], Raise("TypeError"))
            /\ UNCHANGED <<sweep, indexing>>
       ELSE /\ sweep' = [sweep EXCEPT ![p] = [@ EXCEPT !.all_cards = @ \o cards.list]]
            /\ indexing' = [indexing EXCEPT ![p] = [cards |-> cards.list, i |-> 1]]
            /\ pc' = [pc EXCEPT ![p] = "index"]
            /\ UNCHANGED <<result, searched>>
    /\ UNCHANGED <<cache, upstream, ncalls, call, fp, reqs, nsweeps, before, writes>>

\* an iteration whose assignment is divided: the entry takes the new record's
\* fields one after the other, and a record already there keeps its name
IndexStepTorn(p) ==
    /\ pc[p] = "index"
    /\ indexing[p].i <= Len(indexing[p].cards)
    /\ LET card == indexing[p].cards[indexing[p].i]
           key == <<sweep[p].locale, CardId(card)>>
       IN  IF IndexRaises(card)
           THEN /\ Finish(p, call[p], Raise("AttributeError"))
                /\ indexing' = [indexing EXCEPT ![p] = NoIndex]
                /\ UNCHANGED <<cache, writes>>
           ELSE /\ indexing' = [indexing EXCEPT ![p] = [@ EXCEPT !.i = @ + 1]]
                /\ IF Truthy(CardId(card))
                   THEN /\ cache' =
                              IF key \in DOMAIN cache
                              THEN Put(cache, key,
                                       [card EXCEPT !.content.name = cache[key].content.name])
                              ELSE Put(cache, key, card)
                        /\ writes' = Append(writes, Write(p, key, card))
                   ELSE UNCHANGED <<cache, writes>>
                /\ UNCHANGED <<pc, result, searched>>
    /\ UNCHANGED <<upstream, ncalls, call, sweep, fp, reqs, nsweeps, before>>

\* one iteration of the loop of _index_cards
IndexStep(p) ==
    /\ pc[p] = "index"
    /\ indexing[p].i <= Len(indexing[p].cards)
    /\ LET card == indexing[p].cards[indexing[p].i]
           key == <<sweep[p].locale, CardId(card)>>
       IN  IF IndexRaises(card)
           THEN /\ Finish(p, call[p], Raise("AttributeError"))
                /\ indexing' = [indexing EXCEPT ![p] = NoIndex]
                /\ UNCHANGED <<cache, writes>>
           ELSE /\ indexing' = [indexing EXCEPT ![p] = [@ EXCEPT !.i = @ + 1]]
                /\ cache' = IndexCard(cache, sweep[p].locale, card)
                /\ writes' = IF Truthy(CardId(card))
                             THEN Append(writes, Write(p, key, card))
                             ELSE writes
                /\ UNCHANGED <<pc, result, searched>>
    /\ UNCHANGED <<upstream, ncalls, call, sweep, fp, reqs, nsweeps, before>>

\* the loop of _index_cards is over: the next page is requested, or
\* fetch_all_cards returns and the tool builds its document
PageIndexed(p) ==
    /\ pc[p] = "index"
    /\ indexing[p].i > Len(indexing[p].cards)
    /\ indexing' = [indexing EXCEPT ![p] = NoIndex]
    /\ LET sw == sweep[p]
           next == sw.skip + PAGE_SIZE
       IN  IF next < SweepStop(sw.total, sw.max_pages)
           THEN LET f == NewFetch("page", sw.locale, sw.filters, PAGE_SIZE,
                                  next, sw.query) IN
                /\ sweep' = [sweep EXCEPT ![p] = [@ EXCEPT !.skip = next]]
                /\ fp' = [fp EXCEPT ![p] = f]
                /\ reqs' = [reqs EXCEPT ![p] = Append(@, f.req)]
                /\ pc' = [pc EXCEPT ![p] = "fetch_page"]
                /\ UNCHANGED <<result, searched>>
           ELSE /\ Finish(p, call[p], AfterSweep(call[p], cache, sw.all_cards, sw.meta))
                /\ UNCHANGED <<sweep, fp, reqs>>
    /\ UNCHANGED <<cache, upstream, ncalls, call, nsweeps, before, writes>>

\* each thread runs tool invocations that sweep, MaxSweeps of them in all;
\* every request is answered
NextInterleaved ==
    \E p \in Procs :
        \/ /\ ncalls < MaxSweeps
           /\ \E f \in Filters, l \in Locales : search_events(p, f, "", l)
        \/ /\ ncalls < MaxSweeps
           /\ \E l \in Locales : get_event_details(p, "e1", l)
        \/ UrlopenOk(p)
        \/ ProbeReturns(p)
        \/ PageReceived(p)
        \/ IndexStep(p)
        \/ PageIndexed(p)

SpecInterleaved == InitInterleaved /\ [][NextInterleaved]_vars

\* the keys assigned so far
Written == {writes[i].key : i \in 1..Len(writes)}

\* the most recent assignment to a key
LastWrite(k) ==
    writes[CHOOSE i \in 1..Len(writes) :
             /\ writes[i].key = k
             /\ \A j \in (i + 1)..Len(writes) : writes[j].key # k]

\* a record as the API holds it for a locale
WholeRecord(l, card) ==
    \E pos \in 0..(upstream[l].total - 1) : CardAt(upstream[l], pos) = card

\* C19: with two sweeps interleaved between page fetches and between the
\* single assignments to the cache, every entry is at all times one whole
\* record that a sweep wrote, the cache stays well-formed (a non-empty id in
\* the key, the record's own id equal to it), and the entry of a key is the
\* record of the last assignment made to that key; this holds in every
\* state, so also once both sweeps are over.
C19_NoTornValue ==
    /\ DOMAIN cache = Written
    /\ \A k \in DOMAIN cache :
          /\ k[1] \in Locales
          /\ Truthy(k[2])
          /\ IsObj(cache[k])
          /\ "content" \in DOMAIN cache[k]
          /\ CardId(cache[k]) = k[2]
          /\ WholeRecord(k[1], cache[k])
          /\ \E i \in 1..Len(writes) : writes[i] = Write(writes[i].by, k, cache[k])
          /\ cache[k] = LastWrite(k).card

\* two sweeps that both started on the empty cache are over; one wrote the
\* record "second" under e1, the other wrote "first" there later, and
\* "first" is the entry
C19_Witness ==
    /\ \A p \in Procs : pc[p] = "returned" /\ before[p] = EmptyCache
    /\ \E i, j \in 1..Len(writes) :
          /\ i < j
          /\ writes[i] = Write("a", <<DEFAULT_LOCALE, JStr("e1")>>, Card("e1", "second", <<>>))
          /\ writes[j] = Write("b", <<DEFAULT_LOCALE, JStr("e1")>>,
                               Card("e1", "first", <<JStr("topic:ai")>>))
    /\ cache[<<DEFAULT_LOCALE, JStr("e1")>>] = Card("e1", "first", <<JStr("topic:ai")>>)

====
